---- MODULE Spec2Model ----
(***************************************************************************)
(* A model of the A* search engine of rutt (src/src/lib.rs): the           *)
(* SearchContext scratch state, GraphSearch::find_path_with_context run    *)
(* on a context that is reused from call to call, and GraphSearch::        *)
(* find_path, which runs the same search on a context of its own.          *)
(*                                                                         *)
(* Vec indices that the program stores (arena indices held by tokens, by   *)
(* parent links and by the membership index) are kept 0-based: the arena   *)
(* node_storage is a function on 0..len-1.  The output buffer `path` and   *)
(* the scratch buffer `neighbours` are sequences, so position p of the     *)
(* Rust Vec is element p+1 here.  Option<usize> is <<>> (None) or <<p>>    *)
(* (Some(p)).  The BinaryHeap is a bag of tokens; which of several         *)
(* greatest tokens pop() returns is left open.                             *)
(***************************************************************************)
EXTENDS Integers, Sequences, FiniteSets, Bags, TLC

VARIABLES graph, args, call, ref, remaining

vars == <<graph, args, call, ref, remaining>>

----------------------------------------------------------------------------
(* Bounds of the model.                                                    *)

\* vertices of the generic graphs are 0..NV-1
NV == 3
\* edge costs of the generic graphs are 0..MaxCost
MaxCost == 2
\* finite iteration caps tried are 0..MaxCap (besides the default)
MaxCap == 1
\* searches run one after the other on the same context
MaxCalls == 2
\* Grid::new(GridSize): coordinates 0..GridSize
GridSize == 2

----------------------------------------------------------------------------
(* Option, Vec and the cost type.                                          *)

None == <<>>
Some(x) == <<x>>

ZERO == 0

\* the default of GraphSearch::MAXITERATIONS, usize::MAX; no search of the
\* model performs that many expansions (31 bits stand in for the 64)
USIZE_MAX == 2147483647

VecLen(v) == Cardinality(DOMAIN v)

VecPush(v, x) == [i \in 0..VecLen(v) |-> IF i < VecLen(v) THEN v[i] ELSE x]

\* MapInsert recording the index one too high (the length after the push)
MapInsertAfterPush(m, k, x) == [y \in (DOMAIN m) \cup {k} |-> IF y = k THEN x + 1 ELSE m[y]]

MapInsert(m, k, x) == [y \in (DOMAIN m) \cup {k} |-> IF y = k THEN x ELSE m[y]]

Node(vertex, distance, steps, parent) ==
    [vertex |-> vertex, distance |-> distance, steps |-> steps, parent |-> parent]

Token(index, cost) == <<index, cost>>

\* TokenLe without the reversal: the heap would pop the dearest token
TokenLeNatural(a, b) == a[2] <= b[2]

\* Ord for Token: compares the costs, reversed; TRUE iff a <= b
TokenLe(a, b) == b[2] <= a[2]

\* the tokens BinaryHeap::pop may return: the greatest ones
HeapMax(open_set) ==
    {t \in BagToSet(open_set) : \A u \in BagToSet(open_set) : TokenLe(u, t)}

----------------------------------------------------------------------------
(* SearchContext.                                                          *)

DefaultContext ==
    [node_storage |-> <<>>, open_set |-> EmptyBag, open_set_index |-> <<>>,
     closed_set |-> {}, neighbours |-> <<>>]

\* clear that forgets the closed set
clear_keeping_closed(context) ==
    [context EXCEPT !.open_set = EmptyBag, !.open_set_index = <<>>, !.node_storage = <<>>]

clear(context) ==
    [context EXCEPT !.open_set = EmptyBag, !.closed_set = {},
                    !.open_set_index = <<>>, !.node_storage = <<>>]

----------------------------------------------------------------------------
(* The graphs searched: implementations of GraphSearch.                    *)

Vertices == 0..(NV - 1)

Pairs == {e \in Vertices \X Vertices : e[1] < e[2]}

\* a weighted graph: a cost for each pair of vertices that is joined
Weights == UNION {[E -> 0..MaxCost] : E \in SUBSET Pairs}

Key(u, v) == IF u < v THEN <<u, v>> ELSE <<v, u>>

RECURSIVE Ascending(_)
Ascending(S) ==
    IF S = {} THEN <<>>
    ELSE LET m == CHOOSE x \in S : \A y \in S : x <= y
         IN <<m>> \o Ascending(S \ {m})

\* what neighbours(origin, out) appends for the weighted graph w, whose
\* edges go both ways or, if oneway, only from the smaller vertex to the larger
Adjacent(w, oneway, origin) ==
    LET vs == Ascending({v \in Vertices : /\ v # origin
                                          /\ Key(origin, v) \in DOMAIN w
                                          /\ oneway => origin < v})
    IN [i \in 1..Len(vs) |-> <<vs[i], w[Key(origin, vs[i])]>>]

Infinity == NV * MaxCost + 1

Min(a, b) == IF a <= b THEN a ELSE b

RECURSIVE SetMin(_)
SetMin(S) ==
    LET x == CHOOSE y \in S : TRUE
    IN IF S = {x} THEN x ELSE Min(x, SetMin(S \ {x}))

\* cheapest cost of a walk from u to v of at most k edges (Infinity: none)
RECURSIVE Within(_, _, _, _)
Within(nb, u, v, k) ==
    IF u = v THEN 0
    ELSE IF k = 0 THEN Infinity
    ELSE SetMin({Infinity} \cup
                {Min(Infinity, nb[u][i][2] + Within(nb, nb[u][i][1], v, k - 1)) :
                     i \in 1..Len(nb[u])})

\* minimum total cost over all paths from u to v
MinCost(g, u, v) == Within(g.nb, u, v, Cardinality(g.vertices) - 1)

Reachable(g, u, v) == MinCost(g, u, v) < Infinity

\* three heuristics: none, the true remaining cost, and an overestimate
HZero(nb) == [p \in Vertices \X Vertices |-> 0]

HExact(nb) == [p \in Vertices \X Vertices |-> Within(nb, p[1], p[2], NV - 1)]

HOver(nb) == [p \in Vertices \X Vertices |-> IF p[1] = p[2] THEN 0 ELSE p[1] + MaxCost + 1]

Caps == (0..MaxCap) \cup {USIZE_MAX}

GraphsOf(w, oneway) ==
    LET nb == [u \in Vertices |-> Adjacent(w, oneway, u)]
    IN {[vertices |-> Vertices, nb |-> nb, h |-> h, MAXITERATIONS |-> cap] :
            h \in {HZero(nb), HExact(nb), HOver(nb)}, cap \in Caps}

GenericGraphs == UNION {GraphsOf(w, oneway) : w \in Weights, oneway \in BOOLEAN}

\* tests::Grid (and the Grid of benches/astar.rs)
GridVertices == (0..GridSize) \X (0..GridSize)

Abs(x) == IF x < 0 THEN -x ELSE x

GridHeuristic(from, to) == Abs(from[1] - to[1]) + Abs(from[2] - to[2])

GridNeighbours(size, origin) ==
    LET x == origin[1]
        y == origin[2]
    IN (IF x > 0 THEN << <<(<<x - 1, y>>), 1>> >> ELSE <<>>)
       \o (IF x < size THEN << <<(<<x + 1, y>>), 1>> >> ELSE <<>>)
       \o (IF y > 0 THEN << <<(<<x, y - 1>>), 1>> >> ELSE <<>>)
       \o (IF y < size THEN << <<(<<x, y + 1>>), 1>> >> ELSE <<>>)

Grid ==
    [vertices |-> GridVertices,
     nb |-> [v \in GridVertices |-> GridNeighbours(GridSize, v)],
     h |-> [p \in GridVertices \X GridVertices |-> GridHeuristic(p[1], p[2])],
     MAXITERATIONS |-> USIZE_MAX]

heuristic(g, from, to) == g.h[<<from, to>>]

neighbours(g, origin, out) == out \o g.nb[origin]

----------------------------------------------------------------------------
(* One activation of find_path_with_context: the context and output buffer *)
(* it works on, its locals, and its position (pc):                         *)
(*   "idle"         not called yet                                         *)
(*   "loop"         at `while let Some(..) = open_set.pop()`               *)
(*   "for"          inside `for (vertex, distance) in neighbours.drain(..)`*)
(*   "return_path"  returned after filling the path buffer                 *)
(*   "return_empty" returned because the frontier was exhausted            *)

DefaultFrame ==
    [context |-> DefaultContext, path |-> <<>>, idx |-> 0, iter |-> 0,
     id |-> None, next_steps |-> 0, current_distance |-> ZERO, count |-> 0,
     pc |-> "idle"]

Returned(f) == f.pc \in {"return_path", "return_empty"}

\* the output buffer left as it was
path_kept(path) == path

\* Vec::clear on the output buffer
path_clear(path) == <<>>

\* context.clear(); path.clear(); push of the start node and of its token
Enter(f, start) ==
    LET c0 == clear(f.context)
        idx == VecLen(c0.node_storage)
        c1 == [c0 EXCEPT !.node_storage = VecPush(@, Node(start, ZERO, 0, None)),
                         !.open_set = @ (+) SetToBag({Token(idx, ZERO)})]
    IN [context |-> c1, path |-> path_clear(f.path), idx |-> idx, iter |-> 0, id |-> None,
        next_steps |-> 0, current_distance |-> ZERO, count |-> 0, pc |-> "loop"]

\* node_storage.get_unchecked(i): outside the arena the read is undefined,
\* the node read is then arbitrary (built from the vertex junk)
GetUnchecked(node_storage, i, junk) ==
    IF i \in DOMAIN node_storage THEN node_storage[i] ELSE Node(junk, ZERO, 0, None)

\* the termination check with the cap compared one expansion late
TerminationCheckLate(current, goal, iter, cap) == current.vertex = goal \/ iter > cap

TerminationCheck(current, goal, iter, cap) == current.vertex = goal \/ iter >= cap

\* the writes `*path.get_unchecked_mut(current.steps) = current.vertex` of the
\* walk along the parent links, in the order they are made
RECURSIVE Walk(_, _, _)
Walk(node_storage, next, junk) ==
    IF next = None THEN <<>>
    ELSE LET current == GetUnchecked(node_storage, next[1], junk)
         IN <<(<<current.steps, current.vertex>>)>>
            \o (IF next[1] \in DOMAIN node_storage
                THEN Walk(node_storage, current.parent, junk) ELSE <<>>)

\* the buffer after the walk and set_len(buffer_size): a position the walk
\* did not write holds whatever the reserved memory held (junk)
FillPath(writes, buffer_size, junk) ==
    [p \in 1..buffer_size |->
        LET ws == {k \in 1..Len(writes) : writes[k][1] = p - 1}
        IN IF ws = {} THEN junk
           ELSE writes[CHOOSE k \in ws : \A j \in ws : j <= k][2]]

\* a new node that takes the start node for its parent
NewNodeParentStart(vertex, g, next_steps, id) == Node(vertex, g, next_steps, Some(0))

\* a new node that takes over the step count of its parent
NewNodeSameSteps(vertex, g, next_steps, id) == Node(vertex, g, next_steps - 1, Some(id))

NewNode(vertex, g, next_steps, id) == Node(vertex, g, next_steps, Some(id))

\* the token pushed when a cheaper route to a known vertex is found
ImprovedToken(f, index, cost) == Token(f.idx, cost)

\* one turn of the while loop up to the for loop: pop, check, and either
\* fill the path and return or mark the vertex closed and ask for its
\* neighbours
Pop(f, g, goal, tok, junk) ==
    LET c == f.context
        id == tok[1]
        current == GetUnchecked(c.node_storage, id, junk)
        popped == [c EXCEPT !.open_set = @ (-) SetToBag({tok})]
    IN IF TerminationCheck(current, goal, f.iter, g.MAXITERATIONS)
       THEN LET buffer_size == current.steps + 1
                writes == Walk(c.node_storage, Some(id), junk)
            IN [f EXCEPT !.context = popped, !.id = Some(id),
                         !.path = FillPath(writes, buffer_size, junk),
                         !.count = Len(writes), !.pc = "return_path"]
       ELSE LET filled == neighbours(g, current.vertex, c.neighbours)
            IN [f EXCEPT !.context = [popped EXCEPT
                                        !.closed_set = @ \cup {current.vertex},
                                        !.neighbours = filled],
                         !.id = Some(id), !.iter = @ + 1,
                         !.next_steps = current.steps + 1,
                         !.current_distance = current.distance,
                         !.pc = IF filled = <<>> THEN "loop" ELSE "for"]

\* one turn of the for loop over the drained neighbours
ForBody(f, g, goal, junk) ==
    LET c == f.context
        vertex == Head(c.neighbours)[1]
        distance == Head(c.neighbours)[2]
        rest == Tail(c.neighbours)
        gd == f.current_distance + distance
        cost == gd + heuristic(g, vertex, goal)
        Continue(c2) == [f EXCEPT !.context = [c2 EXCEPT !.neighbours = rest],
                                  !.pc = IF rest = <<>> THEN "loop" ELSE "for"]
    IN IF vertex \in c.closed_set THEN Continue(c)
       ELSE IF vertex \in DOMAIN c.open_set_index
       THEN LET index == c.open_set_index[vertex]
                n == GetUnchecked(c.node_storage, index, junk)
            IN IF gd < n.distance /\ index \in DOMAIN c.node_storage
               THEN Continue([c EXCEPT
                        !.node_storage[index].distance = gd,
                        !.open_set = @ (+) SetToBag({ImprovedToken(f, index, cost)})])
               ELSE Continue(c)
       ELSE LET idx == VecLen(c.node_storage)
            IN Continue([c EXCEPT
                    !.node_storage = VecPush(@, NewNode(vertex, gd, f.next_steps, f.id[1])),
                    !.open_set_index = MapInsert(@, vertex, idx),
                    !.open_set = @ (+) SetToBag({Token(idx, cost)})])

\* open_set.pop() gave None: the function returns, the path stays cleared
Exhaust(f) == [f EXCEPT !.pc = "return_empty"]

\* whatever the activation f does next, tok being the token a pop returns
Step(f, g, goal, tok, junk) ==
    IF f.pc = "loop"
    THEN IF f.context.open_set = EmptyBag THEN Exhaust(f)
         ELSE Pop(f, g, goal,
                  IF tok \in HeapMax(f.context.open_set) THEN tok
                  ELSE CHOOSE t \in HeapMax(f.context.open_set) : TRUE, junk)
    ELSE IF f.pc = "for" THEN ForBody(f, g, goal, junk)
    ELSE f

----------------------------------------------------------------------------
(* The state: the graph searched; the arguments (start, goal, path) of the  *)
(* latest call; `call`, the activation of find_path_with_context on the    *)
(* caller's context and buffer, both kept from one call to the next; `ref`,*)
(* the activation that find_path makes for the same arguments on a         *)
(* SearchContext::default() and a vec![] of its own, stepped along with    *)
(* `call` and handed the same token whenever the heap leaves a choice; and *)
(* the number of calls still to be made.                                   *)

start == args[1]
goal == args[2]
\* the contents of the output buffer when the call was made
buffer_in == args[3]

Searching == call.pc \in {"loop", "for"}

\* the entry of the neighbours buffer the for loop is at
AtVertex == Head(call.context.neighbours)[1]

InitGeneric ==
    /\ graph \in GenericGraphs
    /\ args = None
    /\ call = DefaultFrame
    /\ ref = DefaultFrame
    /\ remaining = MaxCalls

\* the open grid of the test and of the benchmark, searched once
InitGrid ==
    /\ graph = Grid
    /\ args = None
    /\ call = DefaultFrame
    /\ ref = DefaultFrame
    /\ remaining = 1

Init == InitGeneric \/ InitGrid

\* find_path_with_context(context, s, g, path) on the kept context and
\* buffer, and beside it find_path(s, g)
FindPathWithContext(s, g) ==
    /\ ~Searching
    /\ remaining > 0
    /\ args' = <<s, g, call.path>>
    /\ call' = Enter(call, s)
    /\ ref' = Enter([DefaultFrame EXCEPT !.path = <<>>], s)
    /\ remaining' = remaining - 1
    /\ UNCHANGED graph

Advance(tok, junk) ==
    /\ call' = Step(call, graph, goal, tok, junk)
    /\ ref' = Step(ref, graph, goal, tok, junk)
    /\ UNCHANGED <<graph, args, remaining>>

\* the termination check holds for the popped node: fill the path, return
PopReturn ==
    /\ call.pc = "loop"
    /\ \E tok \in HeapMax(call.context.open_set), junk \in graph.vertices :
         /\ TerminationCheck(GetUnchecked(call.context.node_storage, tok[1], junk),
                             goal, call.iter, graph.MAXITERATIONS)
         /\ Advance(tok, junk)

\* it does not: the popped node is expanded
PopExpand ==
    /\ call.pc = "loop"
    /\ \E tok \in HeapMax(call.context.open_set), junk \in graph.vertices :
         /\ ~TerminationCheck(GetUnchecked(call.context.node_storage, tok[1], junk),
                              goal, call.iter, graph.MAXITERATIONS)
         /\ Advance(tok, junk)

\* the frontier is empty
Exhausted ==
    /\ call.pc = "loop"
    /\ call.context.open_set = EmptyBag
    /\ \E junk \in graph.vertices : Advance(None, junk)

\* for loop, neighbour in the closed set: continue
ForClosed ==
    /\ call.pc = "for"
    /\ AtVertex \in call.context.closed_set
    /\ \E junk \in graph.vertices : Advance(None, junk)

\* for loop, neighbour in the membership index
ForKnown ==
    /\ call.pc = "for"
    /\ AtVertex \notin call.context.closed_set
    /\ AtVertex \in DOMAIN call.context.open_set_index
    /\ \E junk \in graph.vertices : Advance(None, junk)

\* for loop, neighbour seen for the first time
ForNew ==
    /\ call.pc = "for"
    /\ AtVertex \notin call.context.closed_set
    /\ AtVertex \notin DOMAIN call.context.open_set_index
    /\ \E junk \in graph.vertices : Advance(None, junk)

Next ==
    \/ \E s \in graph.vertices, g \in graph.vertices : FindPathWithContext(s, g)
    \/ PopReturn
    \/ PopExpand
    \/ Exhausted
    \/ ForClosed
    \/ ForKnown
    \/ ForNew

Spec == Init /\ [][Next]_vars

\* a search in progress is not abandoned: the loop runs until it returns
FairSpec == InitGeneric /\ [][Next]_vars /\ WF_vars(Next)

----------------------------------------------------------------------------
(* Vocabulary of the properties.                                           *)

arena == call.context.node_storage

Unbounded == graph.MAXITERATIONS = USIZE_MAX

\* the graph's neighbours operation reports the edge (u, v)
IsEdge(u, v) == \E i \in 1..Len(graph.nb[u]) : graph.nb[u][i][1] = v

EdgeCost(u, v) == SetMin({graph.nb[u][i][2] : i \in {j \in 1..Len(graph.nb[u]) : graph.nb[u][j][1] = v}})

IsPath(p) == \A i \in 1..(Len(p) - 1) : IsEdge(p[i], p[i + 1])

RECURSIVE PathCost(_)
PathCost(p) ==
    IF Len(p) <= 1 THEN 0 ELSE EdgeCost(p[1], p[2]) + PathCost(Tail(p))

GoalReachable == Reachable(graph, start, goal)

NonNegative ==
    \A u \in graph.vertices : \A i \in 1..Len(graph.nb[u]) : graph.nb[u][i][2] >= 0

\* the heuristic never overestimates the remaining cost to t
Admissible(t) ==
    \A u \in graph.vertices : heuristic(graph, u, t) <= MinCost(graph, u, t)

\* the heuristic obeys the triangle inequality across every edge
Consistent(t) ==
    /\ heuristic(graph, t, t) = 0
    /\ \A u \in graph.vertices : \A i \in 1..Len(graph.nb[u]) :
          heuristic(graph, u, t) <= graph.nb[u][i][2] + heuristic(graph, graph.nb[u][i][1], t)

\* the arena node k parent links above node n: Some(index), or None if the
\* links end or leave the arena before
RECURSIVE Ancestor(_, _, _)
Ancestor(ns, n, k) ==
    IF n \notin DOMAIN ns THEN None
    ELSE IF k = 0 THEN Some(n)
    ELSE IF ns[n].parent = None THEN None
    ELSE Ancestor(ns, ns[n].parent[1], k - 1)

\* the tokens a step pushes
Pushed == {t \in BagToSet(call.context.open_set') :
              CopiesIn(t, call.context.open_set') > CopiesIn(t, call.context.open_set)}

----------------------------------------------------------------------------
(* C1: with an admissible and consistent heuristic, non-negative edge      *)
(* costs and an unbounded iteration cap, the sequence returned for a       *)
(* reachable goal is a shortest path: the sum of its edge costs is the     *)
(* minimum total cost over all paths from start to goal.                   *)
C1_ShortestPath ==
    (/\ call.pc = "return_path"
     /\ Unbounded
     /\ NonNegative
     /\ Admissible(goal)
     /\ Consistent(goal)
     /\ GoalReachable)
    => /\ IsPath(call.path)
       /\ PathCost(call.path) = MinCost(graph, start, goal)


(* C2: with an unbounded iteration cap and the goal reachable from start   *)
(* (start = goal included), the search terminates, and its output is a     *)
(* non-empty sequence that begins with start, ends with goal and whose     *)
(* consecutive elements are joined by edges the neighbours operation       *)
(* reports.                                                                *)
C2_ReachableFound ==
    /\ []((Unbounded /\ Returned(call) /\ GoalReachable)
            => /\ call.path # <<>>
               /\ call.path[1] = start
               /\ call.path[Len(call.path)] = goal
               /\ IsPath(call.path))
    /\ ((Searching /\ Unbounded /\ GoalReachable) ~> Returned(call))

C2_Witness ==
    /\ call.pc = "return_path"
    /\ Unbounded
    /\ GoalReachable
    /\ Len(call.path) = NV
    /\ call.path[1] = start
    /\ call.path[Len(call.path)] = goal

(* C3 as stated: whenever the goal is not reachable from start, the search *)
(* terminates and the output sequence is empty, whatever the buffer held   *)
(* before the call.                                                        *)
C3_UnreachableEmpty ==
    /\ []((Returned(call) /\ ~GoalReachable)
            => (call.pc = "return_empty" /\ call.path = <<>>))
    /\ ((Searching /\ ~GoalReachable) ~> Returned(call))

(* C3 amended: the same with an unbounded iteration cap.                   *)
C3_UnreachableEmptyUnbounded ==
    /\ []((Unbounded /\ Returned(call) /\ ~GoalReachable)
            => (call.pc = "return_empty" /\ call.path = <<>>))
    /\ ((Searching /\ Unbounded /\ ~GoalReachable) ~> Returned(call))

C3_Witness ==
    /\ call.pc = "return_empty"
    /\ Unbounded
    /\ ~GoalReachable
    /\ buffer_in # <<>>
    /\ call.path = <<>>
    /\ Cardinality(call.context.closed_set) > 1

(* C4: whatever earlier searches left in the context and in the output     *)
(* buffer, find_path_with_context returns what find_path returns for the   *)
(* same start and goal (equal-priority ties resolved alike).               *)
C4_ContextReuse ==
    Returned(call) => (ref.pc = call.pc /\ ref.path = call.path)

C4_Witness ==
    /\ remaining = MaxCalls - 2
    /\ buffer_in # <<>>
    /\ call.pc = "return_path"
    /\ Len(call.path) > 1
    /\ ref.path = call.path

(* C5: on the open grid with unit-cost moves and the Manhattan heuristic,  *)
(* the returned path has Manhattan distance + 1 vertices, however ties     *)
(* between equal-priority tokens are resolved.                             *)
C5_GridPathLength ==
    (graph = Grid /\ Returned(call))
    => Len(call.path) = GridHeuristic(start, goal) + 1

C5_Witness ==
    /\ graph = Grid
    /\ call.pc = "return_path"
    /\ start = <<0, 0>>
    /\ goal = <<GridSize, GridSize>>
    /\ Len(call.path) = 2 * GridSize + 1

(* C6: at most MAXITERATIONS expansions are performed; a return through    *)
(* the termination check leaves in the buffer the parent-chain path from   *)
(* start to the popped node, steps + 1 long, goal or not; with a cap of 0  *)
(* the output is [start].                                                  *)
C6_IterationCap ==
    /\ Searching \/ Returned(call) => call.iter <= graph.MAXITERATIONS
    /\ call.pc = "return_path" =>
          LET last == arena[call.id[1]]
          IN /\ Len(call.path) = last.steps + 1
             /\ \A k \in 0..last.steps :
                   /\ Ancestor(arena, call.id[1], k) # None
                   /\ call.path[Len(call.path) - k]
                        = arena[Ancestor(arena, call.id[1], k)[1]].vertex
             /\ call.path[1] = start
             /\ call.path[Len(call.path)] = last.vertex
    /\ (Returned(call) /\ graph.MAXITERATIONS = 0) => call.path = <<start>>

C6_Witness ==
    /\ call.pc = "return_path"
    /\ graph.MAXITERATIONS = 1
    /\ call.iter = 1
    /\ arena[call.id[1]].vertex # goal
    /\ Len(call.path) = 2

(* C7: within one search, once a vertex has been expanded no token that    *)
(* refers to its arena node is pushed and the vertex is not expanded       *)
(* again.                                                                  *)
C7_NoReexpansion ==
    [][Searching =>
         /\ \A t \in Pushed :
               call.context.node_storage'[t[1]].vertex \notin call.context.closed_set
         /\ (call.pc = "loop" /\ call.iter' = call.iter + 1)
               => arena[call.id'[1]].vertex \notin call.context.closed_set]_vars

(* C8: when the for loop meets a neighbour that is not closed and is in    *)
(* the membership index, then if g = popped distance + edge cost is lower  *)
(* than the recorded distance, the recorded distance becomes g and one     *)
(* token (that neighbour's arena index, g + heuristic) is pushed;          *)
(* otherwise arena and frontier stay as they are.                          *)
C8_Improvement ==
    [][(/\ call.pc = "for"
        /\ AtVertex \notin call.context.closed_set
        /\ AtVertex \in DOMAIN call.context.open_set_index)
       => LET index == call.context.open_set_index[AtVertex]
              g == call.current_distance + Head(call.context.neighbours)[2]
          IN IF g < arena[index].distance
             THEN /\ call.context.node_storage' =
                        [arena EXCEPT ![index].distance = g]
                  /\ call.context.open_set' = call.context.open_set
                        (+) SetToBag({Token(index, g + heuristic(graph, AtVertex, goal))})
             ELSE /\ call.context.node_storage' = arena
                  /\ call.context.open_set' = call.context.open_set]_vars

(* C9: every arena node is steps parent links away from the start node,    *)
(* arena index 0, the one entry without a parent, each link leading to a   *)
(* node with one step less; so the walk of the path reconstruction writes  *)
(* each of the positions 0..steps once (count = buffer_size).              *)
C9_ParentChain ==
    (Searching \/ Returned(call)) =>
      /\ \A n \in DOMAIN arena :
            /\ (arena[n].parent = None) <=> (n = 0)
            /\ n # 0 => /\ arena[n].parent[1] \in DOMAIN arena
                        /\ arena[arena[n].parent[1]].steps = arena[n].steps - 1
            /\ Ancestor(arena, n, arena[n].steps) = Some(0)
      /\ arena[0].vertex = start
      /\ arena[0].steps = 0
      /\ call.pc = "return_path" =>
            LET buffer_size == arena[call.id[1]].steps + 1
                writes == Walk(arena, call.id, start)
            IN /\ call.count = buffer_size
               /\ Len(writes) = buffer_size
               /\ {writes[k][1] : k \in 1..Len(writes)} = 0..(buffer_size - 1)
               /\ Len(call.path) = buffer_size

C9_Witness ==
    /\ call.pc = "return_path"
    /\ arena[call.id[1]].steps = NV - 1
    /\ call.count = NV

(* C10: every arena index held by the membership index, by a parent link   *)
(* or by a frontier token is below the arena's length; the membership      *)
(* index maps each vertex to the entry that holds that vertex; no vertex   *)
(* has two arena entries.                                                  *)
C10_IndicesValid ==
    (Searching \/ Returned(call)) =>
      /\ DOMAIN arena = 0..(VecLen(arena) - 1)
      /\ \A v \in DOMAIN call.context.open_set_index :
            /\ call.context.open_set_index[v] < VecLen(arena)
            /\ arena[call.context.open_set_index[v]].vertex = v
      /\ \A n \in DOMAIN arena :
            arena[n].parent # None => arena[n].parent[1] < VecLen(arena)
      /\ \A t \in BagToSet(call.context.open_set) : t[1] < VecLen(arena)
      /\ call.id # None => call.id[1] < VecLen(arena)
      /\ \A m, n \in DOMAIN arena : arena[m].vertex = arena[n].vertex => m = n

C10_Witness ==
    /\ Searching
    /\ VecLen(arena) = NV
    /\ Cardinality(DOMAIN call.context.open_set_index) = NV - 1
    /\ \E t \in BagToSet(call.context.open_set) : t[1] = NV - 1

====
